---- MODULE Spec2Model ----
(***************************************************************************)
(* sundial.py: a monitor that polls an inverter's power over MODBUS and    *)
(* drives an analog ammeter through a PWM output, linearised by a          *)
(* calibration curve, plus the calibration wizard that captures the curve. *)
(*                                                                         *)
(* Numbers.  Python floats are modelled as exact rationals [n, d] with     *)
(* d > 0 in lowest terms, plus one non-finite value (IEEE inf/nan, which   *)
(* is what a division by zero yields inside numpy).  Rounding error of     *)
(* binary floating point is not modelled.                                  *)
(***************************************************************************)
EXTENDS Integers, Sequences, FiniteSets, TLC

VARIABLES
    \* the program (Spec)
    pc,                 \* where the process is
    calibrate,          \* args.calibrate
    file,               \* the content of CALIBRATION_FILE
    calibration_points, \* the monitor's loaded points / the wizard's captured points
    client,             \* self.client: "None", "created", "connected", "closed"
    led,                \* the PWMLED: "None", "open", "closed"
    ledValue,           \* the duty cycle last written to the pin (a float)
    readOutcome,        \* this cycle's read_power: "none", "ok", "unavailable", "raised"
    power_value,        \* the watts read_power returned (0 when it returned None)
    power_percent,      \* update_ammeter's power_percent, as last computed
    exc,                \* the exception in flight or that ended the process
    exitCode,           \* -1 while running, then the process's exit status
    lastMsg,            \* the last line printed by the loop or the wizard's prompt
    warned,             \* the warning load_calibration printed, "none" if none
    nReads,             \* read_power calls so far
    cycleWrites,        \* led.value assignments in the current poll cycle
    level,              \* the wizard's position in calibration_percentages (1-based)
    nBad,               \* operator inputs the wizard has rejected so far
    \* history, read by the properties only
    ledAtCycleStart,    \* ledValue when the current poll cycle began
    cancelledAt,        \* pc at which KeyboardInterrupt arrived, "" if it has not
    everDriven,         \* the wizard has assigned led.value in its loop
    lastInput,          \* what the operator typed at the wizard's current prompt
    fileAtStart,        \* the content of CALIBRATION_FILE when the process started
    \* apply_calibration on its own (SpecInterp)
    ipc,                \* "init" before the call, "done" after it, "idle" under Spec
    ipoints,            \* self.calibration_points, a sequence of <<pwm, dial>>
    idesired,           \* the argument desired_percent (a float)
    iresult             \* what apply_calibration returned

pvars == <<pc, calibrate, file, calibration_points, client, led, ledValue, readOutcome,
           power_value, exc, exitCode, lastMsg, warned, nReads, cycleWrites, level, nBad,
           ledAtCycleStart, cancelledAt, everDriven, lastInput, power_percent, fileAtStart>>
ivars == <<ipc, ipoints, idesired, iresult>>
vars == <<pvars, ivars>>

----------------------------------------------------------------------------
(* Floats as exact rationals *)

Abs(a) == IF a < 0 THEN -a ELSE a

RECURSIVE Gcd(_, _)
Gcd(a, b) == IF b = 0 THEN a ELSE Gcd(b, a % b)

NonFinite == [fin |-> FALSE, n |-> 0, d |-> 1]

Rat(num, den) ==
    IF den = 0 THEN NonFinite
    ELSE LET g == Gcd(Abs(num), Abs(den))
             s == IF den < 0 THEN -1 ELSE 1
         IN  [fin |-> TRUE, n |-> (s * num) \div g, d |-> (s * den) \div g]

F(i) == [fin |-> TRUE, n |-> i, d |-> 1]

FAdd(a, b) == IF a.fin /\ b.fin THEN Rat(a.n * b.d + b.n * a.d, a.d * b.d) ELSE NonFinite
FSub(a, b) == IF a.fin /\ b.fin THEN Rat(a.n * b.d - b.n * a.d, a.d * b.d) ELSE NonFinite
FMul(a, b) == IF a.fin /\ b.fin THEN Rat(a.n * b.n, a.d * b.d) ELSE NonFinite
FDiv(a, b) == IF a.fin /\ b.fin THEN Rat(a.n * b.d, a.d * b.n) ELSE NonFinite

\* Comparisons are used on finite values only (a comparison with nan is false).
FLt(a, b) == a.fin /\ b.fin /\ a.n * b.d < b.n * a.d
FLe(a, b) == a.fin /\ b.fin /\ a.n * b.d <= b.n * a.d
FEq(a, b) == a.fin /\ b.fin /\ a.n * b.d = b.n * a.d

----------------------------------------------------------------------------
(* numpy.interp(x, xp, fp) for a scalar x, as called at sundial.py:179.     *)
(* xp and fp are sequences of floats; C indices are 0-based, At(a, i) is    *)
(* a[i] of the C code.                                                      *)

At(arr, i) == arr[i + 1]

\* the closing bisection loop of binary_search_with_guess
RECURSIVE Bisect(_, _, _, _)
Bisect(key, arr, imin, imax) ==
    IF imin < imax
    THEN LET imid == imin + ((imax - imin) \div 2)
         IN  IF FLe(At(arr, imid), key)
             THEN Bisect(key, arr, imid + 1, imax)
             ELSE Bisect(key, arr, imin, imid)
    ELSE imin - 1

\* the linear search used for arrays of at most 4 items
RECURSIVE LinearSearch(_, _, _)
LinearSearch(key, arr, i) ==
    IF i < Len(arr) /\ FLe(At(arr, i), key)
    THEN LinearSearch(key, arr, i + 1)
    ELSE i - 1

\* binary_search_with_guess(key, arr, len, guess): -1 below arr[0], len above
\* arr[len-1], otherwise an index j with arr[j] <= key < arr[j+1] when arr is
\* sorted.  8 is numpy's LIKELY_IN_CACHE_SIZE.
BinarySearchWithGuess(key, arr, guess0) ==
    LET len == Len(arr)
        g1 == IF guess0 > len - 3 THEN len - 3 ELSE guess0
        guess == IF g1 < 1 THEN 1 ELSE g1
    IN  IF FLt(At(arr, len - 1), key) THEN len
        ELSE IF FLt(key, At(arr, 0)) THEN -1
        ELSE IF len <= 4 THEN LinearSearch(key, arr, 1)
        ELSE IF FLt(key, At(arr, guess))
             THEN IF FLt(key, At(arr, guess - 1))
                  THEN Bisect(key, arr,
                              IF guess > 8 /\ FLe(At(arr, guess - 8), key)
                              THEN guess - 8 ELSE 0,
                              guess - 1)
                  ELSE guess - 1
        ELSE IF FLt(key, At(arr, guess + 1)) THEN guess
        ELSE IF FLt(key, At(arr, guess + 2)) THEN guess + 1
        ELSE Bisect(key, arr, guess + 2,
                    IF guess < len - 8 - 1 /\ FLt(key, At(arr, guess + 8))
                    THEN guess + 8 ELSE len)

\* a mutant: the slope is applied to x itself, not to its offset in the segment
InterpSegment_NoOffset(j, x, xp, fp) ==
    LET slope == FDiv(FSub(At(fp, j + 1), At(fp, j)), FSub(At(xp, j + 1), At(xp, j)))
    IN  FAdd(FMul(slope, x), At(fp, j))

\* the interpolation on segment j: slope * (x - xp[j]) + fp[j]
InterpSegment(j, x, xp, fp) ==
    LET slope == FDiv(FSub(At(fp, j + 1), At(fp, j)), FSub(At(xp, j + 1), At(xp, j)))
    IN  FAdd(FMul(slope, FSub(x, At(xp, j))), At(fp, j))

\* a mutant: no clamp outside the sampled range, the end segments are extended
InterpAt_Extrapolate(j, x, xp, fp) ==
    LET lenxp == Len(xp)
    IN  IF j = -1 THEN InterpSegment(0, x, xp, fp)
        ELSE IF j >= lenxp - 1 /\ ~FEq(At(xp, lenxp - 1), x)
             THEN InterpSegment(lenxp - 2, x, xp, fp)
        ELSE IF j = lenxp - 1 THEN At(fp, j)
        ELSE IF FEq(At(xp, j), x) THEN At(fp, j)
        ELSE InterpSegment(j, x, xp, fp)

\* what arr_interp stores for the index j the search returned
InterpAt(j, x, xp, fp) ==
    LET lenxp == Len(xp)
    IN  IF j = -1 THEN At(fp, 0)
        ELSE IF j = lenxp THEN At(fp, lenxp - 1)
        ELSE IF j = lenxp - 1 THEN At(fp, j)
        ELSE IF FEq(At(xp, j), x) THEN At(fp, j)
        ELSE InterpSegment(j, x, xp, fp)

NpInterp(x, xp, fp) ==
    IF ~x.fin THEN x
    ELSE IF Len(xp) = 1
         THEN At(fp, 0)   \* lval, rval and fp[0] are all fp[0]
    ELSE InterpAt(BinarySearchWithGuess(x, xp, 0), x, xp, fp)

----------------------------------------------------------------------------
(* SundialMonitor.apply_calibration.  The outcome is [exc, value]: exc is   *)
(* the exception raised ("none" if it returned) and value the float         *)
(* returned.                                                                *)

WellShaped(points) == \A k \in 1..Len(points) : Len(points[k]) >= 2

DialValues(points) == [k \in 1..Len(points) |-> F(points[k][2])]
PwmValues(points) == [k \in 1..Len(points) |-> F(points[k][1])]

Returned(v) == [exc |-> "none", value |-> v]
Raised(e) == [exc |-> e, value |-> NonFinite]

\* a mutant: the curve is applied forwards (pwm -> dial) instead of inverted
apply_calibration_NotInverted(points, desired_percent) ==
    IF ~WellShaped(points) THEN Raised("IndexError")
    ELSE IF Len(points) = 0 THEN Raised("ValueError")
    ELSE Returned(FDiv(NpInterp(desired_percent, PwmValues(points), DialValues(points)),
                       F(100)))

\* a mutant: the pwm percentage is returned without the division by 100
apply_calibration_NoScale(points, desired_percent) ==
    IF ~WellShaped(points) THEN Raised("IndexError")
    ELSE IF Len(points) = 0 THEN Raised("ValueError")
    ELSE Returned(NpInterp(desired_percent, DialValues(points), PwmValues(points)))

apply_calibration(points, desired_percent) ==
    IF ~WellShaped(points) THEN Raised("IndexError")         \* point[1], line 177
    ELSE IF Len(points) = 0 THEN Raised("ValueError")        \* np.interp on empty xp
    ELSE Returned(FDiv(NpInterp(desired_percent, DialValues(points), PwmValues(points)),
                       F(100)))

----------------------------------------------------------------------------
(* Configuration *)

MAX_POWER == 5760
CALIBRATION_PERCENTAGES == <<0, 25, 50, 75, 100>>

\* default_points of load_calibration
DefaultPoints(percentages) == [k \in 1..Len(percentages) |-> <<percentages[k], percentages[k]>>]

----------------------------------------------------------------------------
(* Bounds of the model *)

GridSteps == 4     \* dial readings are drawn from 0..100 in GridSteps equal steps
MaxPolls == 3      \* poll cycles of the monitor loop
MaxBad == 2        \* operator inputs the wizard rejects in one run

DialGrid == {(100 * k) \div GridSteps : k \in 0..GridSteps}

\* the calibration set of the specification's worked example
ExamplePoints == <<<<0, 0>>, <<25, 20>>, <<50, 45>>, <<75, 72>>, <<100, 100>>>>

\* sets of 2..5 points at the configured pwm levels, with any dial readings of the
\* grid (monotonic or not), and the worked example
GridPointSets ==
    UNION {{[k \in 1..n |-> <<CALIBRATION_PERCENTAGES[k], o[k]>>] : o \in [1..n -> DialGrid]}
           : n \in 2..Len(CALIBRATION_PERCENTAGES)}

\* desired percentages from -10 to 110 in steps of 2.5
DesiredValues == {Rat(5 * k, 2) : k \in -4..44}

NonDecreasing(points) ==
    \A k \in 1..(Len(points) - 1) : points[k][2] <= points[k + 1][2]

----------------------------------------------------------------------------
(* The program at rest, for the specification of apply_calibration alone *)

ProgramIdle ==
    /\ pc = "idle" /\ calibrate = FALSE /\ file = [kind |-> "missing"]
    /\ calibration_points = <<>> /\ client = "None" /\ led = "None"
    /\ ledValue = F(0) /\ readOutcome = "none" /\ power_value = 0
    /\ exc = "none" /\ exitCode = -1 /\ lastMsg = "" /\ warned = "none"
    /\ nReads = 0 /\ cycleWrites = 0 /\ level = 0 /\ nBad = 0
    /\ ledAtCycleStart = F(0) /\ cancelledAt = "" /\ everDriven = FALSE
    /\ lastInput = [kind |-> "nothing"]
    /\ power_percent = F(0) /\ fileAtStart = file

InterpIdle ==
    /\ ipc = "idle" /\ ipoints = <<>> /\ idesired = F(0) /\ iresult = Raised("unset")

----------------------------------------------------------------------------
(* The calibration file *)

FileMissing == [kind |-> "missing"]
\* a JSON object with calibration_points; calibrated is "true", "false" or "absent"
JsonFile(cal, pts) == [kind |-> "json", calibrated |-> cal, points |-> pts]
\* a JSON object without calibration_points
NoPointsFile(cal) == [kind |-> "nopoints", calibrated |-> cal]
\* an empty file, as open(..., 'w') leaves it, and one holding the start of a dump
TruncatedFile == [kind |-> "truncated"]
PartialFile == [kind |-> "partial"]

FlatEndsPoints == <<<<0, 20>>, <<25, 20>>, <<50, 45>>, <<75, 80>>, <<100, 80>>>>
ReversingPoints == <<<<0, 0>>, <<25, 50>>, <<50, 25>>, <<75, 75>>, <<100, 100>>>>
OneColumnPoints == <<<<0>>, <<100>>>>
TwoPoints == <<<<10, 0>>, <<90, 100>>>>

InitialFiles ==
    { FileMissing,
      JsonFile("true", ExamplePoints),
      JsonFile("true", FlatEndsPoints),
      JsonFile("true", TwoPoints),
      JsonFile("true", ReversingPoints),
      JsonFile("true", OneColumnPoints),
      JsonFile("false", DefaultPoints(CALIBRATION_PERCENTAGES)),
      JsonFile("absent", ExamplePoints),
      NoPointsFile("true"),
      TruncatedFile }

\* files the monitor is also started on: every 5-point set of the grid with
\* non-decreasing dial readings, saved as calibrated
MonotonicGridFiles ==
    {JsonFile("true", pts) : pts \in {q \in GridPointSets :
        Len(q) = Len(CALIBRATION_PERCENTAGES) /\ NonDecreasing(q)}}

\* data.get('calibrated', False)
CalibratedFlag(f) == f.calibrated = "true"

\* a mutant: the file is opened without the exists() test
load_calibration_MissingRaises(f, percentages) ==
    IF f.kind = "missing"
    THEN [exc |-> "FileNotFoundError", points |-> <<>>, warned |-> "none"]
    ELSE IF f.kind \in {"truncated", "partial"}
    THEN [exc |-> "JSONDecodeError", points |-> <<>>, warned |-> "none"]
    ELSE LET w == IF CalibratedFlag(f) THEN "none" ELSE "uncalibrated"
         IN  IF f.kind = "nopoints"
             THEN [exc |-> "KeyError", points |-> <<>>, warned |-> w]
             ELSE [exc |-> "none", points |-> f.points, warned |-> w]

\* load_calibration: [exc, points, warned]
load_calibration(f, percentages) ==
    IF f.kind = "missing"
    THEN [exc |-> "none", points |-> DefaultPoints(percentages), warned |-> "not found"]
    ELSE IF f.kind \in {"truncated", "partial"}
    THEN [exc |-> "JSONDecodeError", points |-> <<>>, warned |-> "none"]
    ELSE LET w == IF CalibratedFlag(f) THEN "none" ELSE "uncalibrated"
         IN  IF f.kind = "nopoints"
             THEN [exc |-> "KeyError", points |-> <<>>, warned |-> w]
             ELSE [exc |-> "none", points |-> f.points, warned |-> w]

\* the exit status of a process ended by exception e
ExitStatus(e) == IF e = "none" THEN 0 ELSE IF e = "KeyboardInterrupt" THEN 130 ELSE 1

----------------------------------------------------------------------------
(* __main__ without --calibrate: load_calibration, SundialMonitor, run *)

PowerReadings == {-576, 0, 1440, 2880, 3456, 5760, 6336}

wizvars == <<level, nBad, everDriven, lastInput>>
loopvars == <<readOutcome, power_value, power_percent, lastMsg, nReads, cycleWrites,
              ledAtCycleStart>>

\* lines 227-235
LoadCalibration ==
    /\ pc = "main" /\ ~calibrate
    /\ LET r == load_calibration(file, CALIBRATION_PERCENTAGES)
       IN  /\ warned' = r.warned
           /\ calibration_points' = r.points
           /\ exc' = r.exc
           /\ IF r.exc = "none"
              THEN pc' = "connect" /\ exitCode' = exitCode
              ELSE pc' = "exited" /\ exitCode' = ExitStatus(r.exc)
    /\ UNCHANGED <<calibrate, file, client, led, ledValue, cancelledAt, loopvars, wizvars, fileAtStart, ivars>>

\* run's call of connect(): the client object is built (no connection is made yet)
\* and the PWM pin is claimed, at duty cycle 0
Connect ==
    /\ pc = "connect"
    /\ client' = "created"
    /\ led' = "open"
    /\ ledValue' = F(0)
    /\ pc' = "poll"
    /\ UNCHANGED <<calibrate, file, calibration_points, exc, exitCode, warned, cancelledAt,
                   loopvars, wizvars, fileAtStart, ivars>>

\* PWMLED(gpio_pin) raises (no pin factory, pin in use): connect() is outside run's try
ConnectFails ==
    /\ pc = "connect"
    /\ client' = "created"
    /\ exc' = "GPIOError"
    /\ pc' = "exited"
    /\ exitCode' = ExitStatus("GPIOError")
    /\ UNCHANGED <<calibrate, file, calibration_points, led, ledValue, warned, cancelledAt,
                   loopvars, wizvars, fileAtStart, ivars>>

\* a mutant: the percentage is clamped to [0, 100] before the inversion
PowerPercent_Clamped(w) ==
    LET p == FMul(FDiv(F(w), F(MAX_POWER)), F(100))
    IN  IF FLt(p, F(0)) THEN F(0) ELSE IF FLt(F(100), p) THEN F(100) ELSE p

\* update_ammeter's power_percent
PowerPercent(w) == FMul(FDiv(F(w), F(MAX_POWER)), F(100))

\* the PWMLED value setter accepts a duty cycle in [0, 1] only
DutyCycleOk(v) == FLe(F(0), v) /\ FLe(v, F(1))

BeginCycle ==
    /\ pc = "poll"
    /\ nReads < MaxPolls
    /\ nReads' = nReads + 1
    /\ ledAtCycleStart' = ledValue
    /\ UNCHANGED <<calibrate, file, calibration_points, led, exitCode, warned, cancelledAt,
                   wizvars, fileAtStart, ivars>>

\* a cycle whose read_power returns w: print, update_ammeter, then on to the sleep
PollOk(w) ==
    /\ BeginCycle
    /\ client' = "connected"
    /\ readOutcome' = "ok"
    /\ power_value' = w
    /\ power_percent' = PowerPercent(w)
    /\ lastMsg' = "kW"
    /\ LET r == apply_calibration(calibration_points, PowerPercent(w))
       IN  IF r.exc # "none"
           THEN exc' = r.exc /\ pc' = "finally" /\ UNCHANGED <<ledValue>> /\ cycleWrites' = 0
           ELSE IF ~DutyCycleOk(r.value)
           THEN exc' = "OutputDeviceBadValue" /\ pc' = "finally"
                /\ UNCHANGED <<ledValue>> /\ cycleWrites' = 0
           ELSE exc' = exc /\ pc' = "sleep" /\ ledValue' = r.value /\ cycleWrites' = 1

\* a cycle whose client.connect() returns False: read_power returns None
PollUnavailable ==
    /\ BeginCycle
    /\ readOutcome' = "unavailable"
    /\ lastMsg' = "Connection failed"
    /\ cycleWrites' = 0
    /\ pc' = "sleep"
    /\ UNCHANGED <<client, ledValue, power_value, power_percent, exc>>

\* a cycle whose client.connect() succeeds and whose register read raises
PollRaises ==
    /\ BeginCycle
    /\ client' = "connected"
    /\ readOutcome' = "raised"
    /\ exc' = "ModbusException"
    /\ cycleWrites' = 0
    /\ pc' = "finally"
    /\ UNCHANGED <<ledValue, power_value, power_percent, lastMsg>>

\* sleep(self.poll_interval) returns
SleepDone ==
    /\ pc = "sleep"
    /\ pc' = "poll"
    /\ UNCHANGED <<calibrate, file, calibration_points, client, led, ledValue, exc, exitCode,
                   warned, cancelledAt, loopvars, wizvars, fileAtStart, ivars>>

\* the operator's interrupt, during the read or during the sleep
KeyboardInterrupt ==
    /\ pc \in {"poll", "sleep"}
    /\ exc' = "KeyboardInterrupt"
    /\ cancelledAt' = pc
    /\ pc' = "except"
    /\ UNCHANGED <<calibrate, file, calibration_points, client, led, ledValue, exitCode,
                   warned, loopvars, wizvars, fileAtStart, ivars>>

\* a mutant: the interrupt is swallowed inside the loop, which goes on polling
ExceptKeyboardInterrupt_Continue ==
    /\ pc = "except"
    /\ exc' = "none"
    /\ pc' = "poll"
    /\ UNCHANGED <<calibrate, file, calibration_points, client, led, ledValue, exitCode,
                   warned, cancelledAt, loopvars, wizvars, fileAtStart, ivars>>

\* except KeyboardInterrupt: pass
ExceptKeyboardInterrupt ==
    /\ pc = "except"
    /\ exc' = "none"
    /\ pc' = "finally"
    /\ UNCHANGED <<calibrate, file, calibration_points, client, led, ledValue, exitCode,
                   warned, cancelledAt, loopvars, wizvars, fileAtStart, ivars>>

\* finally: close the client; run returns or the exception goes on to end the process
Finally ==
    /\ pc = "finally"
    /\ client' = IF client # "None" THEN "closed" ELSE client
    /\ pc' = "exited"
    /\ exitCode' = ExitStatus(exc)
    /\ UNCHANGED <<calibrate, file, calibration_points, led, ledValue, exc, warned,
                   cancelledAt, loopvars, wizvars, fileAtStart, ivars>>

----------------------------------------------------------------------------
(* __main__ with --calibrate: run_calibration *)

\* what the operator may type at "Enter dial reading (0-100): "
TypedLines ==
    {[kind |-> "number", v |-> n] : n \in {-1, 0, 50, 100, 101}}
        \cup {[kind |-> "text"], [kind |-> "nan"]}

\* float(line): [exc, fin, v]; "nan" parses to a float that compares false with all
ParseFloat(line) ==
    IF line.kind = "number" THEN [exc |-> "none", fin |-> TRUE, v |-> line.v]
    ELSE IF line.kind = "nan" THEN [exc |-> "none", fin |-> FALSE, v |-> 0]
    ELSE [exc |-> "ValueError", fin |-> FALSE, v |-> 0]

\* a mutant: only the lower end of the range is checked
InRange_NoUpper(x) == x.fin /\ 0 <= x.v

\* 0 <= dial_reading <= 100
InRange(x) == x.fin /\ 0 <= x.v /\ x.v <= 100

monvars == <<client, warned, loopvars>>

\* a mutant: the calibration file is opened for writing before the capture
CalBegin_OpensFile ==
    /\ pc = "main" /\ calibrate
    /\ file' = TruncatedFile
    /\ led' = "open"
    /\ ledValue' = F(0)
    /\ calibration_points' = <<>>
    /\ level' = 1
    /\ pc' = "cal_set"
    /\ UNCHANGED <<calibrate, exc, exitCode, cancelledAt, nBad, everDriven, lastInput,
                   monvars, fileAtStart, ivars>>

\* "Press Enter to begin calibration...", then led = PWMLED(gpio_pin)
CalBegin ==
    /\ pc = "main" /\ calibrate
    /\ led' = "open"
    /\ ledValue' = F(0)
    /\ calibration_points' = <<>>
    /\ level' = 1
    /\ pc' = "cal_set"
    /\ UNCHANGED <<calibrate, file, exc, exitCode, cancelledAt, nBad, everDriven, lastInput,
                   monvars, fileAtStart, ivars>>

\* the first prompt is interrupted or reads end of input, or PWMLED raises
CalBeginFails(e) ==
    /\ pc = "main" /\ calibrate
    /\ exc' = e
    /\ pc' = "exited"
    /\ exitCode' = ExitStatus(e)
    /\ UNCHANGED <<calibrate, file, calibration_points, led, ledValue, cancelledAt, wizvars,
                   monvars, fileAtStart, ivars>>

\* a mutant: the level is announced but the pin is not driven to it
CalSetLevel_NoDrive ==
    /\ pc = "cal_set"
    /\ everDriven' = TRUE
    /\ lastInput' = [kind |-> "nothing"]
    /\ pc' = "cal_settle"
    /\ UNCHANGED <<calibrate, file, calibration_points, led, ledValue, exc, exitCode,
                   cancelledAt, level, nBad, monvars, fileAtStart, ivars>>

\* led.value = pwm_percent / 100.0, and the two prints
CalSetLevel ==
    /\ pc = "cal_set"
    /\ ledValue' = Rat(CALIBRATION_PERCENTAGES[level], 100)
    /\ everDriven' = TRUE
    /\ lastInput' = [kind |-> "nothing"]
    /\ pc' = "cal_settle"
    /\ UNCHANGED <<calibrate, file, calibration_points, led, exc, exitCode, cancelledAt,
                   level, nBad, monvars, fileAtStart, ivars>>

\* sleep(2) returns
CalSettle ==
    /\ pc = "cal_settle"
    /\ pc' = "cal_prompt"
    /\ UNCHANGED <<calibrate, file, calibration_points, led, ledValue, exc, exitCode,
                   cancelledAt, wizvars, monvars, fileAtStart, ivars>>

\* one turn of the while True loop: the operator types a line
CalInput(line) ==
    /\ pc = "cal_prompt"
    /\ lastInput' = line
    /\ LET x == ParseFloat(line)
           n == Len(CALIBRATION_PERCENTAGES)
       IN  IF x.exc = "none" /\ InRange(x)
           THEN /\ calibration_points' =
                       Append(calibration_points, <<CALIBRATION_PERCENTAGES[level], x.v>>)
                /\ nBad' = nBad
                /\ IF CALIBRATION_PERCENTAGES[level] # CALIBRATION_PERCENTAGES[n]
                   THEN pc' = "cal_continue" /\ level' = level
                   ELSE IF level < n
                   THEN pc' = "cal_set" /\ level' = level + 1
                   ELSE pc' = "cal_finally" /\ level' = level
           ELSE /\ nBad < MaxBad
                /\ nBad' = nBad + 1
                /\ UNCHANGED <<calibration_points, level, pc>>
    /\ UNCHANGED <<calibrate, file, led, ledValue, exc, exitCode, cancelledAt, everDriven,
                   monvars, fileAtStart, ivars>>

\* "Press Enter to continue to next point..."
CalContinue ==
    /\ pc = "cal_continue"
    /\ level' = level + 1
    /\ pc' = "cal_set"
    /\ UNCHANGED <<calibrate, file, calibration_points, led, ledValue, exc, exitCode,
                   cancelledAt, nBad, everDriven, lastInput, monvars, fileAtStart, ivars>>

\* the operator's interrupt during the settling delay or at a prompt, or end of
\* input at a prompt
CalInterrupt(e) ==
    /\ pc \in {"cal_settle", "cal_prompt", "cal_continue"}
    /\ e = "EOFError" => pc # "cal_settle"
    /\ exc' = e
    /\ cancelledAt' = pc
    /\ lastInput' = [kind |-> "eof"]
    /\ pc' = "cal_finally"
    /\ UNCHANGED <<calibrate, file, calibration_points, led, ledValue, exitCode, level, nBad,
                   everDriven, monvars, fileAtStart, ivars>>

\* a mutant: the pin is released at whatever level it was last driven to
CalFinally_NoReset ==
    /\ pc = "cal_finally"
    /\ led' = "closed"
    /\ IF exc = "none"
       THEN pc' = "cal_save" /\ exitCode' = exitCode
       ELSE pc' = "exited" /\ exitCode' = ExitStatus(exc)
    /\ UNCHANGED <<calibrate, file, calibration_points, ledValue, exc, cancelledAt, wizvars,
                   monvars, fileAtStart, ivars>>

\* finally: led.value = 0; led.close()
CalFinally ==
    /\ pc = "cal_finally"
    /\ ledValue' = F(0)
    /\ led' = "closed"
    /\ IF exc = "none"
       THEN pc' = "cal_save" /\ exitCode' = exitCode
       ELSE pc' = "exited" /\ exitCode' = ExitStatus(exc)
    /\ UNCHANGED <<calibrate, file, calibration_points, exc, cancelledAt, wizvars, monvars,
                   fileAtStart, ivars>>

\* open(calibration_file, 'w') truncates the file
CalOpenFile ==
    /\ pc = "cal_save"
    /\ file' = TruncatedFile
    /\ pc' = "cal_dump"
    /\ UNCHANGED <<calibrate, calibration_points, led, ledValue, exc, exitCode, cancelledAt,
                   wizvars, monvars, fileAtStart, ivars>>

\* open(calibration_file, 'w') raises (no permission, no directory)
CalOpenFileFails ==
    /\ pc = "cal_save"
    /\ exc' = "OSError"
    /\ pc' = "exited"
    /\ exitCode' = ExitStatus("OSError")
    /\ UNCHANGED <<calibrate, file, calibration_points, led, ledValue, cancelledAt, wizvars,
                   monvars, fileAtStart, ivars>>

\* json.dump completes, the file is closed, the summary is printed
CalDump ==
    /\ pc = "cal_dump"
    /\ file' = JsonFile("true", calibration_points)
    /\ pc' = "exited"
    /\ exitCode' = 0
    /\ UNCHANGED <<calibrate, calibration_points, led, ledValue, exc, cancelledAt, wizvars,
                   monvars, fileAtStart, ivars>>

\* the process is interrupted inside json.dump: the with block closes the file on
\* what was written so far
CalDumpInterrupted(f) ==
    /\ pc = "cal_dump"
    /\ file' = f
    /\ exc' = "KeyboardInterrupt"
    /\ cancelledAt' = pc
    /\ pc' = "exited"
    /\ exitCode' = ExitStatus("KeyboardInterrupt")
    /\ UNCHANGED <<calibrate, calibration_points, led, ledValue, wizvars, monvars, fileAtStart, ivars>>

----------------------------------------------------------------------------
(* Spec: the program, started in either mode on any of the initial files *)

Init ==
    /\ pc = "main"
    /\ calibrate \in BOOLEAN
    /\ file \in (IF calibrate THEN InitialFiles ELSE InitialFiles \cup MonotonicGridFiles)
    /\ calibration_points = <<>>
    /\ client = "None" /\ led = "None" /\ ledValue = F(0)
    /\ readOutcome = "none" /\ power_value = 0
    /\ exc = "none" /\ exitCode = -1 /\ lastMsg = "" /\ warned = "none"
    /\ nReads = 0 /\ cycleWrites = 0 /\ level = 0 /\ nBad = 0
    /\ ledAtCycleStart = F(0) /\ cancelledAt = "" /\ everDriven = FALSE
    /\ lastInput = [kind |-> "nothing"]
    /\ power_percent = F(0) /\ fileAtStart = file
    /\ InterpIdle

Next ==
    \/ LoadCalibration
    \/ Connect
    \/ ConnectFails
    \/ \E w \in PowerReadings : PollOk(w)
    \/ PollUnavailable
    \/ PollRaises
    \/ SleepDone
    \/ KeyboardInterrupt
    \/ ExceptKeyboardInterrupt
    \/ Finally
    \/ CalBegin
    \/ \E e \in {"KeyboardInterrupt", "EOFError", "GPIOError"} : CalBeginFails(e)
    \/ CalSetLevel
    \/ CalSettle
    \/ \E line \in TypedLines : CalInput(line)
    \/ CalContinue
    \/ \E e \in {"KeyboardInterrupt", "EOFError"} : CalInterrupt(e)
    \/ CalFinally
    \/ CalOpenFile
    \/ CalOpenFileFails
    \/ CalDump
    \/ \E f \in {TruncatedFile, PartialFile} : CalDumpInterrupted(f)

Spec == Init /\ [][Next]_vars

----------------------------------------------------------------------------
(* SpecInterp: apply_calibration called once on inputs drawn from the bounds *)

InitInterp ==
    /\ ProgramIdle
    /\ ipc = "init"
    /\ ipoints \in GridPointSets \cup {ExamplePoints}
    /\ idesired \in DesiredValues
    /\ iresult = Raised("unset")

ApplyCalibration ==
    /\ ipc = "init"
    /\ iresult' = apply_calibration(ipoints, idesired)
    /\ ipc' = "done"
    /\ UNCHANGED <<ipoints, idesired, pvars>>

NextInterp == ApplyCalibration

SpecInterp == InitInterp /\ [][NextInterp]_vars

----------------------------------------------------------------------------
(* Properties of apply_calibration *)

FirstPoint == ipoints[1]
LastPoint == ipoints[Len(ipoints)]
Below == FLt(idesired, F(FirstPoint[2]))
Above == FLt(F(LastPoint[2]), idesired)

\* C4: for a set with non-decreasing dial readings, a desired percentage strictly
\* below the first reading returns exactly the first point's pwm / 100, one strictly
\* above the last reading exactly the last point's pwm / 100: a finite value, with no
\* extrapolation and no division by zero, flat ends included.
C4_ClampAtBoundary ==
    (ipc = "done" /\ NonDecreasing(ipoints)) =>
        /\ Below => iresult = Returned(Rat(FirstPoint[1], 100))
        /\ Above => iresult = Returned(Rat(LastPoint[1], 100))

\* a set flat at both ends, asked for a percentage below its first reading
C4_Witness ==
    /\ ipc = "done" /\ NonDecreasing(ipoints) /\ Len(ipoints) = 5
    /\ ipoints[1][2] = ipoints[2][2] /\ ipoints[4][2] = ipoints[5][2]
    /\ ipoints[1][2] > 0
    /\ Below
    /\ iresult = Returned(F(0))

\* the claim's formula for the segment between points i and i+1
SegmentFormula(i, x) ==
    LET di == F(ipoints[i][1])
        oi == F(ipoints[i][2])
        dn == F(ipoints[i + 1][1])
        on == F(ipoints[i + 1][2])
    IN  FDiv(FAdd(di, FMul(FDiv(FSub(x, oi), FSub(on, oi)), FSub(dn, di))), F(100))

\* C5: for a set with non-decreasing dial readings and a desired percentage strictly
\* between the readings o_i < o_{i+1} of two adjacent points, the result is
\* (d_i + (desired - o_i) / (o_{i+1} - o_i) * (d_{i+1} - d_i)) / 100; for the worked
\* example and desired = 60 it is (50 + 15/27*25) / 100 = 23/36, about 0.6389.
C5_InterpolatesBetweenPoints ==
    (ipc = "done" /\ NonDecreasing(ipoints)) =>
        /\ \A i \in 1..(Len(ipoints) - 1) :
              (FLt(F(ipoints[i][2]), idesired) /\ FLt(idesired, F(ipoints[i + 1][2])))
                  => iresult = Returned(SegmentFormula(i, idesired))
        /\ (ipoints = ExamplePoints /\ idesired = F(60)) =>
              /\ iresult = Returned(Rat(50 * 27 + 15 * 25, 27 * 100))
              /\ FLt(Rat(6388, 10000), iresult.value)
              /\ FLt(iresult.value, Rat(6390, 10000))

C5_Witness ==
    /\ ipc = "done" /\ ipoints = ExamplePoints /\ idesired = F(60)
    /\ iresult = Returned(Rat(23, 36))

\* C9 (as claimed): applied to a set whose dial readings are not non-decreasing,
\* apply_calibration fails with CalibrationDataError and returns no value
C9_NonMonotonicRejected ==
    (ipc = "done" /\ ~NonDecreasing(ipoints)) => iresult.exc = "CalibrationDataError"

----------------------------------------------------------------------------
(* Properties of the monitor loop *)

FailedRead == readOutcome \in {"unavailable", "raised"}

\* C1 (as claimed): in a poll cycle whose read fails, by returning None or by
\* raising, the actuator keeps the value it had when the cycle began and no
\* exception leaves the cycle
C1_FailedReadIsContained ==
    (FailedRead /\ cancelledAt = "") => (ledValue = ledAtCycleStart /\ exc = "none")

\* C2 (as claimed): when run has ended, after an interrupt or a fatal error, the
\* actuator has been closed and the client has been closed
C2_CleanupOnEveryExit ==
    (~calibrate /\ pc = "exited" /\ led # "None") => (led = "closed" /\ client = "closed")

\* C6 (as claimed): after a failed read, and short of an interrupt, the loop has
\* reported "Connection failed" and is sleeping or polling again: it has not ended
C6_FailedReadKeepsPolling ==
    (FailedRead /\ cancelledAt = "") =>
        (pc \in {"sleep", "poll"} /\ lastMsg = "Connection failed")

\* C7: once an interrupt has arrived during the sleep between polls, no step reads
\* the power or writes the actuator, every step leads to cleanup or the end of the
\* process, and the process ends with the client closed and exit status 0.
C7_InterruptDuringSleep ==
    /\ [][cancelledAt = "sleep" =>
            /\ nReads' = nReads
            /\ readOutcome' = readOutcome
            /\ ledValue' = ledValue
            /\ cycleWrites' = cycleWrites
            /\ pc' \in {"finally", "exited"}]_vars
    /\ [](cancelledAt = "sleep" /\ pc = "exited" => exitCode = 0 /\ client = "closed")

C7_Witness ==
    /\ cancelledAt = "sleep" /\ pc = "exited" /\ exitCode = 0
    /\ nReads = 2 /\ readOutcome = "ok" /\ cycleWrites = 1

\* C10 (as claimed): started on a calibration file that exists and is malformed,
\* the program does not fail: it goes on with the identity default set and a warning
MalformedFile ==
    \/ file.kind \in {"nopoints", "truncated", "partial"}
    \/ file.kind = "json" /\ ~WellShaped(file.points)

C10_MalformedFileFallsBack ==
    (~calibrate /\ MalformedFile /\ pc # "main") =>
        /\ exc \notin {"KeyError", "JSONDecodeError", "IndexError"}
        /\ calibration_points = DefaultPoints(CALIBRATION_PERCENTAGES)
        /\ warned # "none"

----------------------------------------------------------------------------
(* Properties of the calibration wizard *)

\* C3: once the wizard has driven the actuator, the actuator is at duty cycle 0
\* (and released) from the end of the finally block on, so whenever the wizard has
\* handed back control: after the save, after an interrupt or end of input at a
\* prompt, after an interrupt during the settling delay.
C3_ActuatorRestored ==
    (calibrate /\ everDriven /\ pc \in {"cal_save", "cal_dump", "exited"}) =>
        (ledValue = F(0) /\ led = "closed")

\* cancelled at the prompt of the third level, the pin having been at 50 %
C3_Witness ==
    /\ calibrate /\ pc = "exited" /\ everDriven
    /\ cancelledAt = "cal_prompt" /\ level = 3 /\ exc = "KeyboardInterrupt"
    /\ ledValue = F(0)

\* what the claim calls an invalid input: not a number, or outside [0, 100]
InvalidLine(line) ==
    \/ line.kind \in {"text", "nan"}
    \/ line.kind = "number" /\ (line.v < 0 \/ line.v > 100)

ReadingsInRange(points) ==
    \A k \in 1..Len(points) : 0 <= points[k][2] /\ points[k][2] <= 100

\* C8: a typed line that is not a number or is outside [0, 100] is not recorded and
\* the wizard stays at the prompt of the same level; every reading in the captured
\* list, and in the record the wizard saves, lies in [0, 100].
C8_InvalidInputNeverRecorded ==
    /\ [][(pc = "cal_prompt" /\ InvalidLine(lastInput')) =>
            /\ calibration_points' = calibration_points
            /\ level' = level
            /\ pc' = "cal_prompt"]_vars
    /\ [](calibrate => ReadingsInRange(calibration_points))
    /\ []((calibrate /\ pc = "exited" /\ exitCode = 0) =>
            (file.kind = "json" /\ ReadingsInRange(file.points)))

\* 101 was typed at the second level's prompt and the wizard is still there
C8_Witness ==
    /\ pc = "cal_prompt" /\ level = 2 /\ Len(calibration_points) = 1
    /\ lastInput = [kind |-> "number", v |-> 101] /\ nBad = 2

----------------------------------------------------------------------------
(* Properties of loading, saving and the written value *)

\* [(p, p) for p in calibration_percentages], in the order of the levels
IdentityPoints == <<<<0, 0>>, <<25, 25>>, <<50, 50>>, <<75, 75>>, <<100, 100>>>>

LoadErrors == {"FileNotFoundError", "KeyError", "JSONDecodeError"}

\* C11: started with no calibration file, the monitor holds exactly the identity set
\* [(p, p) for p in calibration_percentages] in the levels' order, the load has not
\* failed, and the set is marked as not calibrated by the "not found" warning (the
\* code returns the points alone: the warning is all that carries calibrated=false).
C11_MissingFileGivesIdentity ==
    (~calibrate /\ fileAtStart.kind = "missing" /\ pc # "main") =>
        /\ calibration_points = IdentityPoints
        /\ warned = "not found"
        /\ exc \notin LoadErrors

C11_Witness ==
    /\ ~calibrate /\ fileAtStart.kind = "missing" /\ pc = "sleep" /\ nReads = 1
    /\ calibration_points = IdentityPoints /\ warned = "not found"

\* C12 (as claimed): at every point of the wizard's run the stored file is either
\* the complete previous content or the complete new record, never empty or partial
C12_SaveIsAtomic ==
    calibrate => (file = fileAtStart \/ file = JsonFile("true", calibration_points))

\* C13: in a poll cycle whose read returned w and that has reached the sleep, the
\* percentage passed to the inversion is 100 * w / max_power, unclamped (50 for
\* w = 2880), the actuator holds apply_calibration of that percentage, and it was
\* written once in the cycle.
C13_WrittenValue ==
    (~calibrate /\ readOutcome = "ok" /\ pc = "sleep") =>
        /\ power_percent = Rat(100 * power_value, MAX_POWER)
        /\ (power_value = 2880 => power_percent = F(50))
        /\ ledValue = apply_calibration(calibration_points,
                                        Rat(100 * power_value, MAX_POWER)).value
        /\ cycleWrites = 1

\* a reading above the rated power: 110 % goes to the inversion, which clamps it
C13_Witness ==
    /\ ~calibrate /\ readOutcome = "ok" /\ pc = "sleep"
    /\ power_value = 6336 /\ power_percent = F(110)
    /\ calibration_points = ExamplePoints /\ ledValue = F(1) /\ cycleWrites = 1

----------------------------------------------------------------------------
(* Round trip *)

\* the set's forward mapping, pwm -> dial, evaluated linearly at pwm percentage d
\* (d within the sampled pwm range; pwm values strictly increasing)
Forward(points, d) ==
    LET i == CHOOSE k \in 1..(Len(points) - 1) :
                 FLe(F(points[k][1]), d) /\ FLe(d, F(points[k + 1][1]))
        di == F(points[i][1])
        oi == F(points[i][2])
        dn == F(points[i + 1][1])
        on == F(points[i + 1][2])
    IN  FAdd(oi, FMul(FDiv(FSub(d, di), FSub(dn, di)), FSub(on, oi)))

StrictlyIncreasingPwm(points) ==
    \A k \in 1..(Len(points) - 1) : points[k][1] < points[k + 1][1]

\* C14: for a set of at least 2 points with strictly increasing pwm values and
\* non-decreasing dial readings, and a desired percentage between the first and the
\* last reading, the forward mapping evaluated at 100 * apply_calibration(desired)
\* gives desired back (exactly, in rational arithmetic).
C14_RoundTrip ==
    (/\ ipc = "done" /\ Len(ipoints) >= 2
     /\ StrictlyIncreasingPwm(ipoints) /\ NonDecreasing(ipoints)
     /\ FLe(F(FirstPoint[2]), idesired) /\ FLe(idesired, F(LastPoint[2]))) =>
        /\ iresult.exc = "none"
        /\ FLe(F(FirstPoint[1]), FMul(iresult.value, F(100)))
        /\ FLe(FMul(iresult.value, F(100)), F(LastPoint[1]))
        /\ FEq(Forward(ipoints, FMul(iresult.value, F(100))), idesired)

\* a set with a flat stretch, asked for 37.5 %: pwm 56.25 %
C14_Witness ==
    /\ ipc = "done"
    /\ ipoints = <<<<0, 0>>, <<25, 25>>, <<50, 25>>, <<75, 75>>, <<100, 100>>>>
    /\ idesired = Rat(75, 2)
    /\ iresult = Returned(Rat(9, 16))
    /\ Forward(ipoints, Rat(225, 4)) = Rat(75, 2)

----------------------------------------------------------------------------
(* Properties of a completed capture *)

CompletedNormally == calibrate /\ pc = "exited" /\ exitCode = 0

\* C15: when the wizard completes normally the captured list has one point per level
\* of calibration_percentages, in their order, the k-th with the k-th level as its
\* pwm value, and the saved record holds that list with calibrated = true; and a
\* reading is appended for level k only while the open actuator is at level k.
C15_CaptureInOrder ==
    /\ [](CompletedNormally =>
            /\ Len(calibration_points) = Len(CALIBRATION_PERCENTAGES)
            /\ \A k \in 1..Len(calibration_points) :
                  calibration_points[k][1] = CALIBRATION_PERCENTAGES[k]
            /\ file = [kind |-> "json", calibrated |-> "true",
                       points |-> calibration_points])
    /\ [][(calibrate /\ Len(calibration_points') = Len(calibration_points) + 1) =>
            LET k == Len(calibration_points')
            IN  /\ calibration_points'[k][1] = CALIBRATION_PERCENTAGES[k]
                /\ led = "open"
                /\ ledValue = Rat(CALIBRATION_PERCENTAGES[k], 100)]_vars

C15_Witness ==
    /\ CompletedNormally
    /\ calibration_points = <<<<0, 0>>, <<25, 50>>, <<50, 50>>, <<75, 100>>, <<100, 100>>>>
    /\ file.kind = "json" /\ file.calibrated = "true" /\ file.points = calibration_points

----------------------------------------------------------------------------
(* Properties of startup and of the data handed to the monitor *)

\* C16 (as claimed): the monitor is in its poll loop only once the handshake with
\* the power source has succeeded, and when the first handshake fails the process
\* has ended with a non-zero exit status instead of looping
C16_PollingOnlyAfterHandshake ==
    ~calibrate =>
        /\ pc \in {"poll", "sleep"} => client = "connected"
        /\ (nReads = 1 /\ readOutcome = "unavailable" /\ cancelledAt = "") =>
              (pc = "exited" /\ exitCode \notin {-1, 0})

Loaded == ~calibrate /\ pc # "main" /\ exc \notin LoadErrors

\* C17 (as claimed): a set whose dial readings decrease at some step is not saved
\* by the wizard, and is not handed to the monitor by the load without a warning
C17_NonMonotonicNotAccepted ==
    /\ CompletedNormally => NonDecreasing(file.points)
    /\ (Loaded /\ WellShaped(calibration_points) /\ ~NonDecreasing(calibration_points))
          => warned # "none"

\* C18 (as claimed): a file whose calibrated flag is false or absent loads without
\* failure, with a warning, and the monitor uses the identity set, not the file's
C18_UncalibratedFallsBack ==
    (~calibrate /\ pc # "main" /\ fileAtStart.kind = "json"
     /\ fileAtStart.calibrated # "true" /\ WellShaped(fileAtStart.points)) =>
        /\ exc \notin LoadErrors
        /\ warned # "none"
        /\ calibration_points = IdentityPoints

PwmInRange(points) ==
    \A k \in 1..Len(points) : 0 <= points[k][1] /\ points[k][1] <= 100

\* C19: with a loaded set whose pwm values lie in [0, 100] and whose dial readings
\* are non-decreasing, the actuator's value lies in [0, 1] at every point of the run,
\* whatever was read (negative, above max_power) and whichever polls failed, and the
\* actuator never refuses a value.
C19_WrittenValuesInRange ==
    (/\ Loaded /\ Len(calibration_points) >= 1 /\ WellShaped(calibration_points)
     /\ PwmInRange(calibration_points) /\ NonDecreasing(calibration_points)) =>
        /\ FLe(F(0), ledValue) /\ FLe(ledValue, F(1))
        /\ exc # "OutputDeviceBadValue"

\* 110 % was written as 1 on a set flat at both ends, then a poll failed
C19_Witness ==
    /\ ~calibrate /\ calibration_points = FlatEndsPoints /\ pc = "sleep"
    /\ nReads = 3 /\ readOutcome = "unavailable"
    /\ power_value = 6336 /\ ledValue = F(1)

\* C20: the wizard changes the stored file only when all levels have been captured
\* and the actuator is back at 0 and closed; a run that ends with fewer readings
\* than levels (cancelled, end of input) leaves the file as it was.
C20_FileWrittenOnlyAfterCapture ==
    /\ [][(calibrate /\ file' # file) =>
            /\ Len(calibration_points) = Len(CALIBRATION_PERCENTAGES)
            /\ ledValue = F(0)
            /\ led = "closed"]_vars
    /\ []((calibrate /\ pc = "exited" /\ Len(calibration_points) < Len(CALIBRATION_PERCENTAGES))
            => file = fileAtStart)

\* cancelled at "Press Enter to continue" after the fourth reading
C20_Witness ==
    /\ calibrate /\ pc = "exited" /\ cancelledAt = "cal_continue"
    /\ Len(calibration_points) = 4
    /\ file = fileAtStart /\ file = JsonFile("true", ExamplePoints)

====
